---- MODULE Spec2Model ----
(***************************************************************************)
(* Model of src/thread.cpp: four matrix-multiplication threads and one     *)
(* generator thread, synchronised by the mutex cv_mtx, the condition       *)
(* variable cv and the counter finishedCount.                              *)
(*                                                                         *)
(* Every statement that touches shared state is one step of its thread.    *)
(* cv.wait(lk, pred) is "while (!pred()) cv.wait(lk)": the predicate is    *)
(* tested with the mutex held (pc = "wait_test"); a false predicate        *)
(* releases the mutex and blocks the thread on cv (pc = "wait_sleep"); a   *)
(* notification or a spurious wakeup unblocks it (pc = "wait_relock"),     *)
(* after which it re-acquires the mutex and tests the predicate again.     *)
(* The set of threads blocked on cv is {t : pc[t] = "wait_sleep"}.         *)
(***************************************************************************)
EXTENDS Integers, FiniteSets, Sequences, TLC

\* ------------------------------------------------------------------ constants
InitialN == 10                    \* int currentN = 10
numMultiplicationThreads == 4     \* const int numMultiplicationThreads = 4
FullCount == 4                    \* the literal 4 in finishedCount == 4

\* ------------------------------------------------------------------ bounds
MaxRounds == 3                    \* loop iterations each worker may start
LateRound == 26                   \* completed rounds before LateSpec begins

Workers == 0 .. (numMultiplicationThreads - 1)   \* threadId of multThreads[i]
Gen     == numMultiplicationThreads              \* the fifth thread
Threads == Workers \cup {Gen}
NoOwner == -1                                    \* cv_mtx is unlocked

VARIABLES
  pc,            \* position of every thread
  cv_mtx,        \* owner of the mutex, or NoOwner
  finishedCount, \* int finishedCount
  currentN,      \* int currentN
  globalA,       \* vector<vector<int>> globalA
  globalB,       \* vector<vector<int>> globalB
  N_local,       \* multiplicationThread: int N_local, per worker
  seen,          \* multiplicationThread: what each worker's multiplication read
  newSize,       \* matrixGeneratorThread: int newSize
  newA,          \* matrixGeneratorThread: newA
  newB,          \* matrixGeneratorThread: newB
  ver,           \* history: number of generator writes to currentN/globalA/globalB
  iter,          \* history: loop iterations started by each worker
  incs,          \* history: finishedCount++ executed by each worker
  gens,          \* history: generations completed by the generator
  wokenBy,       \* history: what unblocked a thread that has left cv's wait set
  sinceReset     \* history: finishedCount++ executed by each worker since the last reset

vars == <<pc, cv_mtx, finishedCount, currentN, globalA, globalB, N_local, seen,
          newSize, newA, newB, ver, iter, incs, gens, wokenBy, sinceReset>>

shared == <<currentN, globalA, globalB>>
genLocals == <<newSize, newA, newB>>

\* ------------------------------------------------------------------ data
\* vector<vector<int>>(n, vector<int>(n, v)): n rows of n columns, all v
Matrix(n, v) == [rows |-> n, cols |-> n, val |-> v]

\* a moved-from / default-constructed vector<vector<int>>
EmptyMatrix == [rows |-> 0, cols |-> 0, val |-> 0]

\* 2^k
RECURSIVE Pow2(_)
Pow2(k) == IF k <= 0 THEN 1 ELSE 2 * Pow2(k - 1)

\* currentN *= 2 on a 32-bit int (two's complement wrap-around)
DoubleWrong(n) == n + 2
Double(n) ==
  IF n >= 2^30 THEN ((n - 2^30) * 2 - 2^30) - 2^30
  ELSE IF n < -(2^30) THEN ((n + 2^30) * 2 + 2^30) + 2^30
  ELSE n * 2

\* currentN *= 2 does not fit a 32-bit int
Overflows(n) == n >= 2^30 \/ n < -(2^30)

\* Signed overflow is undefined: a build either wraps (plain x86/ARM code) or
\* traps and ends the process (-ftrapv, sanitizer with abort).
DoubleOutcomes(n) ==
  IF Overflows(n)
    THEN {[trap |-> FALSE, value |-> Double(n)], [trap |-> TRUE, value |-> n]}
    ELSE {[trap |-> FALSE, value |-> Double(n)]}

\* the predicate of the workers' cv.wait (line 76)
WorkerPredicateWrong == TRUE
WorkerPredicate == finishedCount = 0

\* the predicate of the generator's cv.wait (line 87)
GeneratorPredicateWrong == finishedCount >= FullCount - 1
GeneratorPredicate == finishedCount = FullCount

\* threads blocked on cv
Waiting == {t \in Threads : pc[t] = "wait_sleep"}

\* ------------------------------------------------------------------ main
Init ==
  /\ pc = [t \in Threads |-> IF t = Gen THEN "g_lock" ELSE "read"]
  /\ cv_mtx = NoOwner
  /\ finishedCount = 0
  /\ currentN = InitialN
  /\ globalA = Matrix(InitialN, 1)
  /\ globalB = Matrix(InitialN, 2)
  /\ N_local = [w \in Workers |-> 0]
  /\ seen = [w \in Workers |-> [verN |-> -1, A |-> EmptyMatrix, B |-> EmptyMatrix,
                                verA |-> -1, verB |-> -1]]
  /\ newSize = 0
  /\ newA = EmptyMatrix
  /\ newB = EmptyMatrix
  /\ ver = [N |-> 0, A |-> 0, B |-> 0]
  /\ iter = [w \in Workers |-> 0]
  /\ incs = [w \in Workers |-> 0]
  /\ gens = 0
  /\ wokenBy = [t \in Threads |-> "none"]
  /\ sinceReset = [w \in Workers |-> 0]

\* ------------------------------------------------------------------ multiplicationThread
\* line 46: int N_local = currentN (start of a loop iteration)
w_read(w) ==
  /\ pc[w] = "read"
  /\ iter[w] < MaxRounds
  /\ N_local' = [N_local EXCEPT ![w] = currentN]
  /\ seen' = [seen EXCEPT ![w].verN = ver.N]
  /\ iter' = [iter EXCEPT ![w] = @ + 1]
  /\ pc' = [pc EXCEPT ![w] = "mult"]
  /\ UNCHANGED <<cv_mtx, finishedCount, shared, genLocals, ver, incs, gens, wokenBy, sinceReset>>

\* lines 49-55: multiplyMatrices(globalA, globalB, C, N_local)
w_mult(w) ==
  /\ pc[w] = "mult"
  /\ seen' = [seen EXCEPT ![w].A = globalA, ![w].B = globalB,
                          ![w].verA = ver.A, ![w].verB = ver.B]
  /\ pc' = [pc EXCEPT ![w] = "lock"]
  /\ UNCHANGED <<cv_mtx, finishedCount, shared, N_local, genLocals, ver, iter, incs, gens, wokenBy, sinceReset>>

\* line 69: unique_lock<mutex> lk(cv_mtx)
w_lock(w) ==
  /\ pc[w] = "lock"
  /\ cv_mtx = NoOwner
  /\ cv_mtx' = w
  /\ pc' = [pc EXCEPT ![w] = "inc"]
  /\ UNCHANGED <<finishedCount, shared, N_local, seen, genLocals, ver, iter, incs, gens, wokenBy, sinceReset>>

\* line 70: finishedCount++
w_incWrong(w) ==
  /\ pc[w] = "inc"
  /\ finishedCount' = finishedCount + 1
  /\ currentN' = currentN + 1
  /\ incs' = [incs EXCEPT ![w] = @ + 1]
  /\ sinceReset' = [sinceReset EXCEPT ![w] = @ + 1]
  /\ pc' = [pc EXCEPT ![w] = "notify"]
  /\ UNCHANGED <<cv_mtx, globalA, globalB, N_local, seen, genLocals, ver, iter, gens, wokenBy>>

w_inc(w) ==
  /\ pc[w] = "inc"
  /\ finishedCount' = finishedCount + 1
  /\ incs' = [incs EXCEPT ![w] = @ + 1]
  /\ sinceReset' = [sinceReset EXCEPT ![w] = @ + 1]
  /\ pc' = [pc EXCEPT ![w] = "notify"]
  /\ UNCHANGED <<cv_mtx, shared, N_local, seen, genLocals, ver, iter, gens, wokenBy>>

\* lines 72-74: if (finishedCount == 4) cv.notify_one()
\* notify_one unblocks one of the threads blocked on cv, any of them
w_notify(w) ==
  /\ pc[w] = "notify"
  /\ IF finishedCount = FullCount /\ Waiting # {}
       THEN \E t \in Waiting :
              /\ pc' = [pc EXCEPT ![w] = "wait_test", ![t] = "wait_relock"]
              /\ wokenBy' = [wokenBy EXCEPT ![t] = "notify_one"]
       ELSE /\ pc' = [pc EXCEPT ![w] = "wait_test"]
            /\ UNCHANGED wokenBy
  /\ UNCHANGED <<cv_mtx, finishedCount, shared, N_local, seen, genLocals, ver, iter, incs, gens, sinceReset>>

\* line 76: the predicate test of cv.wait(lk, [] { return finishedCount == 0; })
\* true: wait returns and lk is released at line 77; false: release and block
w_wait_test(w) ==
  /\ pc[w] = "wait_test"
  /\ cv_mtx' = NoOwner
  /\ IF WorkerPredicate
       THEN pc' = [pc EXCEPT ![w] = "read"]
       ELSE pc' = [pc EXCEPT ![w] = "wait_sleep"]
  /\ wokenBy' = [wokenBy EXCEPT ![w] = "none"]
  /\ UNCHANGED <<finishedCount, shared, N_local, seen, genLocals, ver, iter, incs, gens, sinceReset>>

\* line 76: an unblocked worker re-acquires cv_mtx inside cv.wait
w_wait_relock(w) ==
  /\ pc[w] = "wait_relock"
  /\ cv_mtx = NoOwner
  /\ cv_mtx' = w
  /\ pc' = [pc EXCEPT ![w] = "wait_test"]
  /\ UNCHANGED <<finishedCount, shared, N_local, seen, genLocals, ver, iter, incs, gens, wokenBy, sinceReset>>

\* ------------------------------------------------------------------ matrixGeneratorThread
\* line 86: unique_lock<mutex> lk(cv_mtx)
g_lock ==
  /\ pc[Gen] = "g_lock"
  /\ cv_mtx = NoOwner
  /\ cv_mtx' = Gen
  /\ pc' = [pc EXCEPT ![Gen] = "wait_test"]
  /\ UNCHANGED <<finishedCount, shared, N_local, seen, genLocals, ver, iter, incs, gens, wokenBy, sinceReset>>

\* line 87: the predicate test of cv.wait(lk, [] { return finishedCount == 4; })
\* true: wait returns and lk is released at line 88; false: release and block
g_wait_test ==
  /\ pc[Gen] = "wait_test"
  /\ cv_mtx' = NoOwner
  /\ IF GeneratorPredicate
       THEN pc' = [pc EXCEPT ![Gen] = "double"]
       ELSE pc' = [pc EXCEPT ![Gen] = "wait_sleep"]
  /\ wokenBy' = [wokenBy EXCEPT ![Gen] = "none"]
  /\ UNCHANGED <<finishedCount, shared, N_local, seen, genLocals, ver, iter, incs, gens, sinceReset>>

\* line 87: the unblocked generator re-acquires cv_mtx inside cv.wait
g_wait_relock ==
  /\ pc[Gen] = "wait_relock"
  /\ cv_mtx = NoOwner
  /\ cv_mtx' = Gen
  /\ pc' = [pc EXCEPT ![Gen] = "wait_test"]
  /\ UNCHANGED <<finishedCount, shared, N_local, seen, genLocals, ver, iter, incs, gens, wokenBy, sinceReset>>

\* line 91: currentN *= 2 (cv_mtx is not held)
g_double ==
  /\ pc[Gen] = "double"
  /\ \E outcome \in DoubleOutcomes(currentN) :
       IF outcome.trap
         THEN /\ pc' = [t \in Threads |-> "aborted"]
              /\ UNCHANGED <<currentN, ver>>
         ELSE /\ currentN' = outcome.value
              /\ ver' = [ver EXCEPT !.N = @ + 1]
              /\ pc' = [pc EXCEPT ![Gen] = "alloc"]
  /\ UNCHANGED <<cv_mtx, finishedCount, globalA, globalB, N_local, seen, genLocals, iter, incs, gens, wokenBy, sinceReset>>

\* lines 92-105: int newSize = currentN; newA(newSize x newSize of 1); newB(... of 2)
\* A negative newSize converts to a size_type above max_size(): the vector
\* constructor throws, nothing catches it in the thread, std::terminate ends
\* the process.
g_alloc ==
  /\ pc[Gen] = "alloc"
  /\ newSize' = currentN
  /\ IF currentN < 0
       THEN /\ pc' = [t \in Threads |-> "aborted"]
            /\ UNCHANGED <<newA, newB>>
       ELSE /\ newA' = Matrix(currentN, 1)
            /\ newB' = Matrix(currentN, 2)
            /\ pc' = [pc EXCEPT ![Gen] = "g_lock2"]
  /\ UNCHANGED <<cv_mtx, finishedCount, shared, N_local, seen, ver, iter, incs, gens, wokenBy, sinceReset>>

\* line 109: unique_lock<mutex> lk(cv_mtx)
g_lock2 ==
  /\ pc[Gen] = "g_lock2"
  /\ cv_mtx = NoOwner
  /\ cv_mtx' = Gen
  /\ pc' = [pc EXCEPT ![Gen] = "moveA"]
  /\ UNCHANGED <<finishedCount, shared, N_local, seen, genLocals, ver, iter, incs, gens, wokenBy, sinceReset>>

\* line 110: globalA = move(newA)
g_moveA ==
  /\ pc[Gen] = "moveA"
  /\ globalA' = newA
  /\ newA' = EmptyMatrix
  /\ ver' = [ver EXCEPT !.A = @ + 1]
  /\ pc' = [pc EXCEPT ![Gen] = "moveB"]
  /\ UNCHANGED <<cv_mtx, finishedCount, currentN, globalB, N_local, seen, newSize, newB, iter, incs, gens, wokenBy, sinceReset>>

\* line 111: globalB = move(newB)
g_moveB ==
  /\ pc[Gen] = "moveB"
  /\ globalB' = newB
  /\ newB' = EmptyMatrix
  /\ ver' = [ver EXCEPT !.B = @ + 1]
  /\ pc' = [pc EXCEPT ![Gen] = "reset"]
  /\ UNCHANGED <<cv_mtx, finishedCount, currentN, globalA, N_local, seen, newSize, newA, iter, incs, gens, wokenBy, sinceReset>>

\* line 114: finishedCount = 0
g_reset ==
  /\ pc[Gen] = "reset"
  /\ finishedCount' = 0
  /\ sinceReset' = [w \in Workers |-> 0]
  /\ pc' = [pc EXCEPT ![Gen] = "notify_all"]
  /\ UNCHANGED <<cv_mtx, shared, N_local, seen, genLocals, ver, iter, incs, gens, wokenBy>>

\* lines 116-117: cv.notify_all() unblocks every thread blocked on cv; lk is released
g_notify_all ==
  /\ pc[Gen] = "notify_all"
  /\ pc' = [t \in Threads |-> IF t = Gen THEN "g_lock"
                              ELSE IF pc[t] = "wait_sleep" THEN "wait_relock"
                              ELSE pc[t]]
  /\ cv_mtx' = NoOwner
  /\ wokenBy' = [t \in Threads |-> IF pc[t] = "wait_sleep" THEN "notify_all" ELSE wokenBy[t]]
  /\ gens' = gens + 1
  /\ UNCHANGED <<finishedCount, shared, N_local, seen, genLocals, ver, iter, incs, sinceReset>>

\* ------------------------------------------------------------------ condition_variable
\* cv.wait may return from blocking without a notification
SpuriousWakeup(t) ==
  /\ pc[t] = "wait_sleep"
  /\ pc' = [pc EXCEPT ![t] = "wait_relock"]
  /\ wokenBy' = [wokenBy EXCEPT ![t] = "spurious"]
  /\ UNCHANGED <<cv_mtx, finishedCount, shared, N_local, seen, genLocals, ver, iter, incs, gens, sinceReset>>

\* ------------------------------------------------------------------ specification
Worker(w) ==
  \/ w_read(w)
  \/ w_mult(w)
  \/ w_lock(w)
  \/ w_inc(w)
  \/ w_notify(w)
  \/ w_wait_test(w)
  \/ w_wait_relock(w)

Generator ==
  \/ g_lock
  \/ g_wait_test
  \/ g_wait_relock
  \/ g_double
  \/ g_alloc
  \/ g_lock2
  \/ g_moveA
  \/ g_moveB
  \/ g_reset
  \/ g_notify_all

Next ==
  \/ \E w \in Workers : Worker(w)
  \/ Generator
  \/ \E t \in Threads : SpuriousWakeup(t)

Spec == Init /\ [][Next]_vars

\* The program after LateRound completed rounds, at the round boundary: every
\* worker is about to read currentN (line 46) after leaving its wait, the
\* generator is about to lock (line 86), and the shared data are those of
\* generation LateRound. The history variables count from this state.
LateInit ==
  /\ pc = [t \in Threads |-> IF t = Gen THEN "g_lock" ELSE "read"]
  /\ cv_mtx = NoOwner
  /\ finishedCount = 0
  /\ currentN = InitialN * Pow2(LateRound)
  /\ globalA = Matrix(InitialN * Pow2(LateRound), 1)
  /\ globalB = Matrix(InitialN * Pow2(LateRound), 2)
  /\ N_local = [w \in Workers |-> InitialN * Pow2(LateRound - 1)]
  /\ seen = [w \in Workers |->
              [verN |-> -1, A |-> Matrix(InitialN * Pow2(LateRound - 1), 1),
               B |-> Matrix(InitialN * Pow2(LateRound - 1), 2), verA |-> -1, verB |-> -1]]
  /\ newSize = InitialN * Pow2(LateRound)
  /\ newA = EmptyMatrix
  /\ newB = EmptyMatrix
  /\ ver = [N |-> 0, A |-> 0, B |-> 0]
  /\ iter = [w \in Workers |-> 0]
  /\ incs = [w \in Workers |-> 0]
  /\ gens = 0
  /\ wokenBy = [t \in Threads |-> "none"]
  /\ sinceReset = [w \in Workers |-> 0]

LateSpec == LateInit /\ [][Next]_vars

\* Fair scheduling: a thread that can run again and again eventually runs, and
\* a thread that again and again finds cv_mtx free eventually acquires it (no
\* thread is starved of the mutex). A spurious wakeup is never owed to anybody.
\* This is the most the scheduler can promise; what fails under it fails under
\* every weaker assumption.
FairSpec ==
  /\ Spec
  /\ \A w \in Workers : SF_vars(Worker(w))
  /\ SF_vars(Generator)

TypeOK ==
  /\ pc \in [Threads -> {"read", "mult", "lock", "inc", "notify", "wait_test", "wait_sleep",
                         "wait_relock", "g_lock", "double", "alloc", "g_lock2", "moveA",
                         "moveB", "reset", "notify_all", "aborted"}]
  /\ cv_mtx \in Threads \cup {NoOwner}
  /\ finishedCount \in Int
  /\ currentN \in Int

\* ------------------------------------------------------------------ vocabulary of the claims
InWait(t) == pc[t] \in {"wait_test", "wait_sleep", "wait_relock"}

\* the generator is between the return of its wait (line 88) and the reset (line 114)
GenBetweenWaitAndReset ==
  pc[Gen] \in {"double", "alloc", "g_lock2", "moveA", "moveB", "reset"}

\* a worker is between its read of currentN (line 46) and its increment (line 70)
Computing(w) == pc[w] \in {"mult", "lock", "inc"}

RECURSIVE SumIncs(_)
SumIncs(S) == IF S = {} THEN 0
              ELSE LET w == CHOOSE x \in S : TRUE IN incs[w] + SumIncs(S \ {w})

\* ------------------------------------------------------------------ C1
\* C1: no missed wakeup for the producer: under fair scheduling, whenever
\* finishedCount is 4 the generator's wait at line 87 eventually returns and
\* the generator proceeds to generate (line 91).
C1_NoMissedWakeup == (finishedCount = FullCount) ~> (pc[Gen] = "double")

\* ------------------------------------------------------------------ C2
\* C2: exactly-once release per round: a worker blocked on cv in the wait it
\* entered for round R is never still blocked there once the generator has
\* released round R (reset + notify_all done R times); no worker is skipped.
C2_NoWorkerSkipped ==
  \A w \in Workers : pc[w] = "wait_sleep" => gens < iter[w]

\* ------------------------------------------------------------------ C3
\* C3: deadlock freedom: no reachable state has all four workers and the
\* generator blocked on cv with their predicates false.
C3_NeverAllBlocked ==
  ~ ( /\ \A t \in Threads : pc[t] = "wait_sleep"
      /\ finishedCount # 0
      /\ finishedCount # FullCount )

\* ------------------------------------------------------------------ C4
\* C4: the producer never writes while a worker computes: whenever the
\* generator is between the return of its wait (line 88) and the reset (line
\* 114), all four workers are inside the wait of line 76; and no step changes
\* currentN, globalA or globalB while some worker is between its read of
\* currentN (line 46) and its increment (line 70).
C4_ProducerNeverWritesWhileWorkerComputes ==
  /\ [](GenBetweenWaitAndReset => \A w \in Workers : InWait(w))
  /\ [][(\E w \in Workers : Computing(w)) => UNCHANGED shared]_vars

\* the generator installs round 2's matrices while all four workers wait
C4_Witness ==
  /\ pc[Gen] = "moveB"
  /\ ver.N = 1
  /\ \A w \in Workers : InWait(w) /\ iter[w] = 1

\* ------------------------------------------------------------------ C5
\* C5: no worker begins round R+1 early: a worker returns from the wait of
\* line 76 that ended its round R, and reads currentN for round R+1, only when
\* all four workers have incremented finishedCount for round R and the
\* generator has completed every write of generation R (currentN, globalA,
\* globalB) and is not in the middle of a later one.
C5_AllWritten(r) ==
  /\ ver.N = r
  /\ ver.A = r
  /\ ver.B = r
  /\ \A v \in Workers : incs[v] >= r

C5_NoEarlyStart ==
  [][\A w \in Workers :
       /\ (InWait(w) /\ pc'[w] = "read") => C5_AllWritten(iter[w])
       /\ (iter'[w] = iter[w] + 1) => C5_AllWritten(iter[w])]_vars

\* one worker computes in round 2 while a slower one has not yet left the
\* wait of round 1
C5_Witness ==
  \E w, v \in Workers :
    /\ iter[w] = 2
    /\ pc[w] = "mult"
    /\ iter[v] = 1
    /\ pc[v] = "wait_relock"

\* ------------------------------------------------------------------ C6
\* C6: round-consistent reads: in its k-th loop iteration a worker reads the
\* currentN, globalA and globalB written by the generator's (k-1)-th
\* generation (main's data for k = 1), so two workers in the same iteration
\* have read the same data.
C6_ReadN(w) == iter[w] >= 1
C6_ReadAB(w) == iter[w] >= 1 /\ pc[w] # "mult"

C6_RoundConsistentReads ==
  /\ \A w \in Workers :
       /\ C6_ReadN(w) => seen[w].verN = iter[w] - 1
       /\ C6_ReadAB(w) => seen[w].verA = iter[w] - 1 /\ seen[w].verB = iter[w] - 1
  /\ \A w, v \in Workers :
       /\ (C6_ReadN(w) /\ C6_ReadN(v) /\ iter[w] = iter[v]) => N_local[w] = N_local[v]
       /\ (C6_ReadAB(w) /\ C6_ReadAB(v) /\ iter[w] = iter[v]) =>
            seen[w].A = seen[v].A /\ seen[w].B = seen[v].B

\* all four workers have multiplied the matrices of generation 1 in iteration 2
C6_Witness ==
  \A w \in Workers :
    /\ iter[w] = 2
    /\ pc[w] \in {"lock", "inc", "notify", "wait_test", "wait_sleep", "wait_relock"}
    /\ seen[w].verA = 1

\* ------------------------------------------------------------------ C7
\* C7: 0 <= finishedCount <= 4 in every reachable state.
C7_CountInRange == finishedCount >= 0 /\ finishedCount <= numMultiplicationThreads

\* the counter is full for the second time
C7_Witness == finishedCount = numMultiplicationThreads /\ gens = 1

\* ------------------------------------------------------------------ C8
\* C8: shape invariant: in every reachable state globalA and globalB are both
\* square with dimension equal to currentN.
C8_ShapeInvariant ==
  /\ globalA.rows = currentN
  /\ globalA.cols = currentN
  /\ globalB.rows = currentN
  /\ globalB.cols = currentN

\* ------------------------------------------------------------------ C9
\* C9: distinct predicates are never conflated: a worker leaves the wait of
\* line 76 only in a state where finishedCount = 0 and the generator leaves
\* the wait of line 87 only in a state where finishedCount = 4 and all four
\* workers have signalled, whatever woke the thread; a worker that tests its
\* predicate while finishedCount is 4 (woken by the notify_one meant for the
\* generator, or spuriously) goes back to sleep.
C9_PredicatesNotConflated ==
  [][/\ \A w \in Workers : (InWait(w) /\ ~InWait(w)') => finishedCount = 0
     /\ (InWait(Gen) /\ ~InWait(Gen)') =>
          /\ finishedCount = 4
          /\ \A w \in Workers : incs[w] = gens + 1
     /\ \A w \in Workers :
          (pc[w] = "wait_test" /\ finishedCount = 4 /\ pc'[w] # pc[w]) =>
            pc'[w] = "wait_sleep"]_vars

\* the last worker's notify_one has woken a worker while the generator is
\* still blocked on cv
C9_Witness ==
  \E w \in Workers :
    /\ pc[w] = "wait_test"
    /\ wokenBy[w] = "notify_one"
    /\ finishedCount = 4
    /\ pc[Gen] = "wait_sleep"

\* ------------------------------------------------------------------ C10
\* C10: growth per round: each generation doubles currentN once and installs
\* globalA and globalB of the new size, so a worker in its k-th iteration
\* computes on size InitialN * 2^(k-1); the generator performs exactly one
\* generation per completed round (per four increments of finishedCount).
C10_GenStarted ==
  IF pc[Gen] \in {"alloc", "g_lock2", "moveA", "moveB", "reset", "notify_all"}
    THEN gens + 1 ELSE gens

C11_WritesUnderLock ==
  [][\A t \in Threads :
       (pc'[t] # pc[t] /\ <<currentN, globalA, globalB, finishedCount>>' #
                          <<currentN, globalA, globalB, finishedCount>>)
         => cv_mtx = t]_vars

\* ------------------------------------------------------------------ C12
\* C12: frame of each role: every worker step leaves currentN, globalA and
\* globalB unchanged and changes finishedCount by +1 or not at all; every
\* generator step leaves finishedCount unchanged or resets it to 0, and never
\* increments it.
C12_GeneratorStep == pc'[Gen] # pc[Gen]
C12_WorkerStep == pc' # pc /\ ~C12_GeneratorStep

C12_Frame ==
  [][/\ C12_WorkerStep =>
          /\ UNCHANGED <<currentN, globalA, globalB>>
          /\ finishedCount' \in {finishedCount, finishedCount + 1}
     /\ C12_GeneratorStep =>
          finishedCount' \in {finishedCount, 0}]_vars

\* a worker has incremented the counter after the generator's first reset
C12_Witness ==
  /\ gens = 1
  /\ finishedCount = 1
  /\ \E w \in Workers : pc[w] = "notify" /\ incs[w] = 2

\* ------------------------------------------------------------------ C13
\* C13: counter transitions around the full value: the reset of line 114 is
\* executed only in a state where finishedCount is 4, and in a state where
\* finishedCount is 4 the only change to it is the generator's reset to 0.
C13_ResetOnlyWhenFull ==
  [][/\ (pc[Gen] = "reset" /\ pc'[Gen] # "reset") => finishedCount = 4
     /\ (finishedCount' = 0 /\ finishedCount # 0) => finishedCount = 4
     /\ (finishedCount = 4 /\ finishedCount' # 4) =>
          (finishedCount' = 0 /\ pc[Gen] = "reset")]_vars

\* the generator has reset the full counter for the second time
C13_Witness ==
  /\ pc[Gen] = "notify_all"
  /\ finishedCount = 0
  /\ gens = 1

\* ------------------------------------------------------------------ C14
\* C14: size stays positive: currentN >= 1 in every reachable state, with
\* currentN the 32-bit int of the code, doubled once per round without a cap,
\* starting from 10.
C14_SizePositive == currentN >= 1

\* ------------------------------------------------------------------ C15
\* C15: a worker signals at most once per round: since the last reset of
\* finishedCount (or since the start) each worker has executed line 70 at most
\* once, and finishedCount is the number of distinct workers that have.
C15_SignalledSinceReset == {w \in Workers : sinceReset[w] >= 1}

C15_AtMostOncePerRound ==
  /\ \A w \in Workers : sinceReset[w] <= 1
  /\ finishedCount = Cardinality(C15_SignalledSinceReset)

\* two of the four workers have signalled in round 2
C15_Witness ==
  /\ gens = 1
  /\ finishedCount = 2
  /\ Cardinality(C15_SignalledSinceReset) = 2

\* ------------------------------------------------------------------ C16
\* C16: lockstep: the numbers of loop iterations started by any two workers
\* differ by at most one, and the number of generations completed by the
\* generator is at most the number of increments made by any worker.
C16_Lockstep ==
  /\ \A w, v \in Workers : iter[w] - iter[v] <= 1
  /\ \A w \in Workers : gens <= incs[w]

\* a worker has started round 3 while another is still in round 2, two
\* generations after the start
C16_Witness ==
  /\ gens = 2
  /\ \E w, v \in Workers : iter[w] = 3 /\ iter[v] = 2 /\ incs[v] = 2

====
